---------------------------- MODULE Spec2Model ----------------------------
(***************************************************************************)
(* Model of jira-mcp-server (src/main.go): process startup (main,          *)
(* loadConfig, NewJiraMCPServer) and the two tool handlers                 *)
(* UpdateJiraIssue and CreateJiraIssue with findJiraUser.                  *)
(*                                                                         *)
(* A Go string is a sequence: the strings the code inspects (descriptions, *)
(* user queries, user names) are sequences of one-character strings, and   *)
(* the strings it only copies or concatenates (keys, account ids, error    *)
(* texts, the parts of the base URL) are sequences of longer tokens.  <<>>  *)
(* is the empty string, \o is concatenation, and the strings package       *)
(* functions the code calls are operators over sequences.                  *)
(***************************************************************************)
EXTENDS Naturals, Sequences, FiniteSets, TLC

VARIABLES
    env,          \* environment variables read by loadConfig
    transport,    \* the -transport flag
    mainPc,       \* position of main()
    config,       \* *JiraConfig returned by loadConfig (NoConfig before)
    fatal,        \* diagnostic of log.Fatal ("" while the process runs)
    authLog,      \* outcomes of the User.GetSelf calls made by main
    tracker,      \* the tracker's stored fields of the existing issue
    tool,         \* handler that is running or ran last
    pc,           \* position of the running handler ("idle" when none)
    params,       \* parameters of that invocation
    ctxCancelled, \* the invocation context ctx has been cancelled
    calls,        \* outbound tracker calls of that invocation, in order
    issue,        \* UpdateJiraIssue: the issue returned by Issue.Get
    lookup,       \* CreateJiraIssue: arguments given to findJiraUser
    ret,          \* what the handler returned (NoReturn while running)
    lastUpdate    \* the previous completed UpdateJiraIssue invocation

vars == <<env, transport, mainPc, config, fatal, authLog, tracker, tool, pc,
          params, ctxCancelled, calls, issue, lookup, ret, lastUpdate>>

mainVars == <<env, transport, mainPc, config, fatal, authLog>>

-----------------------------------------------------------------------------
(* Bounds of the model *)

\* longest description, counted in pieces of DescPieces
MaxPieces == 2
\* longest user list returned by User.Find
MaxUsers == 2

-----------------------------------------------------------------------------
(* Go strings as sequences of characters *)

Upper ==
    <<"A", "B", "C", "D", "E", "F", "G", "H", "I", "J", "K", "L", "M",
      "N", "O", "P", "Q", "R", "S", "T", "U", "V", "W", "X", "Y", "Z">>
Lower ==
    <<"a", "b", "c", "d", "e", "f", "g", "h", "i", "j", "k", "l", "m",
      "n", "o", "p", "q", "r", "s", "t", "u", "v", "w", "x", "y", "z">>
UpperSet == {Upper[i] : i \in 1..Len(Upper)}

\* the lower-case letter of an upper-case letter
LowerOf(c) == Lower[CHOOSE i \in 1..Len(Upper) : Upper[i] = c]

\* strings.ToLower
ToLower(s) ==
    [i \in 1..Len(s) |-> IF s[i] \in UpperSet THEN LowerOf(s[i]) ELSE s[i]]

\* strings.EqualFold
EqualFold(s, t) == ToLower(s) = ToLower(t)

\* strings.Index, 1-based; 0 when sub does not occur in s
Index(s, sub) ==
    LET hits == {i \in 1..(Len(s) + 1) :
                    /\ i + Len(sub) - 1 <= Len(s)
                    /\ SubSeq(s, i, i + Len(sub) - 1) = sub}
    IN  IF hits = {} THEN 0 ELSE CHOOSE i \in hits : \A k \in hits : i <= k

\* strings.Contains
Contains(s, sub) == Index(s, sub) # 0

\* strings.SplitN(s, sep, 2)
SplitN2(s, sep) ==
    LET i == Index(s, sep)
    IN  IF i = 0 THEN <<s>>
        ELSE <<SubSeq(s, 1, i - 1), SubSeq(s, i + Len(sep), Len(s))>>

\* strings.Split(s, sep), sep non-empty
RECURSIVE Split(_, _)
Split(s, sep) ==
    LET i == Index(s, sep)
    IN  IF i = 0 THEN <<s>>
        ELSE <<SubSeq(s, 1, i - 1)>> \o Split(SubSeq(s, i + Len(sep), Len(s)), sep)

IsSpace(c) == c \in {" ", "\n", "\t", "\r"}

\* strings.TrimSpace
TrimSpace(s) ==
    LET keep == {i \in 1..Len(s) : ~IsSpace(s[i])}
    IN  IF keep = {} THEN <<>>
        ELSE SubSeq(s, CHOOSE i \in keep : \A k \in keep : i <= k,
                       CHOOSE i \in keep : \A k \in keep : i >= k)

\* strings.HasPrefix
HasPrefix(s, p) == Len(s) >= Len(p) /\ SubSeq(s, 1, Len(p)) = p

\* strings.TrimSuffix
TrimSuffix(s, x) ==
    IF Len(s) >= Len(x) /\ SubSeq(s, Len(s) - Len(x) + 1, Len(s)) = x
    THEN SubSeq(s, 1, Len(s) - Len(x))
    ELSE s

-----------------------------------------------------------------------------
(* Startup: getEnv, loadConfig, main *)

NoConfig == [BaseURL |-> <<>>, Username |-> <<>>, APIToken |-> <<>>, ProjectKey |-> <<>>]

DefaultBaseURL == <<"https://", "unitedmasters.atlassian.net">>

\* getEnv: an unset and an empty variable both give the default
getEnv(value, defaultValue) == IF value # <<>> THEN value ELSE defaultValue

\* the JiraConfig literal built at the top of loadConfig
RawConfig(e) ==
    [BaseURL    |-> getEnv(e.JIRA_BASE_URL, DefaultBaseURL),
     Username   |-> getEnv(e.JIRA_USERNAME, <<>>),
     APIToken   |-> getEnv(e.JIRA_API_TOKEN, <<>>),
     ProjectKey |-> getEnv(e.JIRA_PROJECT_KEY, <<"SMS">>)]

\* loadConfig's error ("" when it returns a config)
loadConfigErr(e) ==
    LET c == RawConfig(e)
    IN  IF c.BaseURL = <<>> THEN "JIRA_BASE_URL environment variable is required"
        ELSE IF c.Username = <<>> THEN "JIRA_USERNAME environment variable is required"
        ELSE IF c.APIToken = <<>> THEN "JIRA_API_TOKEN environment variable is required"
        ELSE IF c.ProjectKey = <<>> THEN "JIRA_PROJECT_KEY environment variable is required"
        ELSE ""

\* the base URL normalisation at the end of loadConfig
NormalizeBaseURL(u) ==
    LET withScheme == IF ~HasPrefix(u, <<"http://">>) /\ ~HasPrefix(u, <<"https://">>)
                      THEN <<"https://">> \o u
                      ELSE u
    IN  TrimSuffix(withScheme, <<"/">>)

\* loadConfig's config when it succeeds
loadConfig(e) ==
    LET c == RawConfig(e)
    IN  [c EXCEPT !.BaseURL = NormalizeBaseURL(c.BaseURL)]

EnvBaseURLs == {<<>>, <<"jira.example", "/">>}
\* the environments: a site sets both its URL and its project, or neither
Envs ==
    {e \in [JIRA_BASE_URL : EnvBaseURLs, JIRA_USERNAME : {<<>>, <<"bot">>},
            JIRA_API_TOKEN : {<<>>, <<"tok">>}, JIRA_PROJECT_KEY : {<<>>, <<"OPS">>}] :
        (e.JIRA_BASE_URL = <<>>) <=> (e.JIRA_PROJECT_KEY = <<>>)}

Transports == {"stdio", "sse"}

\* main: config, err := loadConfig(); the two log.Fatal checks that follow
LoadConfig ==
    /\ mainPc = "loadConfig"
    /\ LET err == loadConfigErr(env)
           c   == loadConfig(env)
       IN  IF err # ""
           THEN /\ fatal' = "Failed to load configuration:"
                /\ mainPc' = "exited"
                /\ config' = config
           ELSE IF c.Username = <<>> \/ c.APIToken = <<>>
           THEN /\ fatal' = "JIRA_USERNAME and JIRA_API_TOKEN environment variables are required"
                /\ mainPc' = "exited"
                /\ config' = c
           ELSE /\ fatal' = fatal
                /\ mainPc' = "testConnection"
                /\ config' = c
    /\ UNCHANGED <<env, transport, authLog, tracker, tool, pc, params,
                   ctxCancelled, calls, issue, lookup, ret, lastUpdate>>

\* TestConnection going on to serve after a failed authentication
TestConnectionLenient ==
    /\ mainPc = "testConnection"
    /\ \E authOk \in BOOLEAN :
          /\ authLog' = Append(authLog, authOk)
          /\ fatal' = fatal
          /\ mainPc' = "newServer"
    /\ UNCHANGED <<env, transport, config, tracker, tool, pc, params,
                   ctxCancelled, calls, issue, lookup, ret, lastUpdate>>

\* main: testClient := jira.NewClient(...); testClient.User.GetSelf()
TestConnection ==
    /\ mainPc = "testConnection"
    /\ \E clientOk \in BOOLEAN, authOk \in BOOLEAN :
          IF ~clientOk
          THEN /\ fatal' = "Failed to create JIRA client: "
               /\ mainPc' = "exited"
               /\ authLog' = authLog
          ELSE /\ authLog' = Append(authLog, authOk)
               /\ IF authOk
                  THEN fatal' = fatal /\ mainPc' = "newServer"
                  ELSE fatal' = "Failed to authenticate with JIRA: " /\ mainPc' = "exited"
    /\ UNCHANGED <<env, transport, config, tracker, tool, pc, params,
                   ctxCancelled, calls, issue, lookup, ret, lastUpdate>>

\* main: NewJiraMCPServer(config), then the transport chosen by the flag
StartServer ==
    /\ mainPc = "newServer"
    /\ \E clientOk \in BOOLEAN :
          IF clientOk
          THEN fatal' = fatal /\ mainPc' = "serving"
          ELSE fatal' = "Failed to create JIRA MCP server:" /\ mainPc' = "exited"
    /\ UNCHANGED <<env, transport, config, authLog, tracker, tool, pc, params,
                   ctxCancelled, calls, issue, lookup, ret, lastUpdate>>

\* main: http.ListenAndServe or server.Run returns; log.Fatal ends the process
ServeExit ==
    /\ mainPc = "serving"
    /\ pc = "idle"
    /\ mainPc' = "exited"
    /\ fatal' = "transport closed"
    /\ UNCHANGED <<env, transport, config, authLog, tracker, tool, pc, params,
                   ctxCancelled, calls, issue, lookup, ret, lastUpdate>>

\* the server the SSE handler gives a request path (FALSE: nil, no handler)
SSEServerFor(path) == path = "/sse"

\* a tool invocation can reach a handler
Served ==
    /\ mainPc = "serving"
    /\ transport = "sse" => \E path \in {"/sse", "/"} : SSEServerFor(path)

-----------------------------------------------------------------------------
(* The tracker client and the result envelope *)

IssueKeys == {<<"SMS-12">>, <<"SMS-99">>}
\* the one issue the tracker holds; Issue.Get of any other key fails
ExistingKey == <<"SMS-12">>
NotFound == <<"404 Not Found">>
Errors == {<<"HTTP 500">>}
ContextCanceled == <<"context canceled">>

\* The context a go-jira call without a context argument runs under:
\* Issue.Get, Issue.UpdateIssue, Issue.Create, User.Find and User.GetSelf are
\* called without ctx, so the request is made under context.Background().
CallContext == "Background"

\* an outbound call as it is issued
Outbound(op, arg) ==
    [op |-> op, arg |-> arg, ctx |-> CallContext, ctxDone |-> ctxCancelled,
     done |-> FALSE, err |-> <<>>]

\* the errors a call can come back with (<<>>: success): a call made under
\* the invocation context is aborted once that context is cancelled
Replies(call) ==
    IF call.ctx = "invocation" /\ call.ctxDone
    THEN {ContextCanceled}
    ELSE {<<>>} \cup Errors

Outstanding == calls[Len(calls)]

\* calls, with the outstanding call completed with err
Completed(err) ==
    [calls EXCEPT ![Len(calls)] = [@ EXCEPT !.done = TRUE, !.err = err]]

\* &mcp.CallToolResult{Content: []mcp.Content{&mcp.TextContent{Text: text}}}, nil, nil
TextResult(text) ==
    [returned |-> TRUE,
     result   |-> [isNil |-> FALSE, Content |-> <<[Text |-> text]>>],
     err      |-> <<>>]

NoReturn ==
    [returned |-> FALSE, result |-> [isNil |-> TRUE, Content |-> <<>>], err |-> <<>>]

\* fmt.Sprintf("%s/browse/%s", j.config.BaseURL, key)
IssueUrl(key) == config.BaseURL \o <<"/browse/">> \o key

-----------------------------------------------------------------------------
(* UpdateJiraIssue *)

NoIssue == [Key |-> <<>>]
NoUser ==
    [isNil |-> TRUE,
     user |-> [AccountID |-> <<>>, DisplayName |-> <<>>, EmailAddress |-> <<>>,
               Name |-> <<>>],
     err |-> <<>>]
NoLookup ==
    [called |-> FALSE, query |-> <<>>, searched |-> FALSE, users |-> <<>>,
     found |-> NoUser]
NoUpdate ==
    [valid |-> FALSE,
     params |-> [IssueKey |-> <<>>, Summary |-> <<>>, Description |-> <<>>, Status |-> <<>>],
     trace |-> <<>>, ret |-> NoReturn]

UpdateIssueArgs ==
    [IssueKey : IssueKeys, Summary : {<<>>, <<"S1">>},
     Description : {<<>>, <<"D1">>}, Status : {<<>>, <<"Done">>}]

\* updateFields replacing both fields whatever the request carries
updateFieldsFull(p) ==
    [f \in {"summary", "description"}
       |-> IF f = "summary" THEN <<[set |-> p.Summary]>>
                            ELSE <<[set |-> p.Description]>>]

\* updateFields writing the status field as well
updateFieldsWithStatus(p) ==
    [f \in {g \in {"summary", "description", "status"} :
              \/ g = "summary" /\ p.Summary # <<>>
              \/ g = "description" /\ p.Description # <<>>
              \/ g = "status" /\ p.Status # <<>>}
       |-> IF f = "summary" THEN <<[set |-> p.Summary]>>
           ELSE IF f = "description" THEN <<[set |-> p.Description]>>
           ELSE <<[set |-> p.Status]>>]

\* the updateFields map built from the request
updateFields(p) ==
    [f \in {g \in {"summary", "description"} :
              \/ g = "summary" /\ p.Summary # <<>>
              \/ g = "description" /\ p.Description # <<>>}
       |-> IF f = "summary" THEN <<[set |-> p.Summary]>>
                            ELSE <<[set |-> p.Description]>>]

\* GetFailed with a text that leaves the issue key out
GetFailedNoKey(p, err) == TextResult(<<"Failed to get JIRA issue: ">> \o err)

\* the result returned when Issue.Get fails
GetFailed(p, err) ==
    TextResult(<<"Failed to get JIRA issue ">> \o p.IssueKey \o <<": ">> \o err)

\* the result returned when Issue.UpdateIssue fails
UpdateFailed(p, err) ==
    TextResult(<<"Failed to update JIRA issue ">> \o p.IssueKey \o <<": ">> \o err)

\* the result returned at the end of UpdateJiraIssue
Updated(key) == TextResult(<<"Updated JIRA issue: ">> \o IssueUrl(key))

\* what one invocation did, as seen from outside: its calls and their errors
Trace(cs) == [i \in 1..Len(cs) |-> [op |-> cs[i].op, arg |-> cs[i].arg, err |-> cs[i].err]]

\* the tracker applying the body of an Issue.UpdateIssue request
Applied(stored, data) ==
    [f \in DOMAIN stored |->
        IF f \in DOMAIN data.update THEN data.update[f][1].set ELSE stored[f]]

\* UpdateJiraIssue is invoked: Issue.Get(params.IssueKey, nil) goes out
UpdateStart ==
    /\ Served
    /\ pc = "idle"
    /\ \E p \in UpdateIssueArgs :
          /\ params' = p
          /\ calls' = <<[Outbound("Issue.Get", p.IssueKey) EXCEPT !.ctxDone = FALSE]>>
    /\ tool' = "update"
    /\ pc' = "Issue.Get"
    /\ ctxCancelled' = FALSE
    /\ issue' = NoIssue
    /\ lookup' = NoLookup
    /\ ret' = NoReturn
    /\ UNCHANGED <<mainVars, tracker, lastUpdate>>

\* Issue.Get returns: the failure result, or the update call, or the success result
UpdateGetReturn ==
    /\ tool = "update"
    /\ pc = "Issue.Get"
    /\ \E err \in (IF params.IssueKey = ExistingKey THEN Replies(Outstanding) ELSE {NotFound}) :
          /\ IF err # <<>>
             THEN /\ calls' = Completed(err)
                  /\ ret' = GetFailed(params, err)
                  /\ pc' = "returned"
                  /\ issue' = issue
             ELSE /\ issue' = [Key |-> params.IssueKey]
                  /\ IF DOMAIN updateFields(params) # {}
                     THEN /\ calls' = Append(Completed(err),
                                        Outbound("Issue.UpdateIssue",
                                                 [key |-> params.IssueKey,
                                                  data |-> [update |-> updateFields(params)]]))
                          /\ pc' = "Issue.UpdateIssue"
                          /\ ret' = ret
                     ELSE /\ calls' = Completed(err)
                          /\ ret' = Updated(params.IssueKey)
                          /\ pc' = "returned"
    /\ UNCHANGED <<mainVars, tracker, tool, params, ctxCancelled, lookup, lastUpdate>>

\* Issue.UpdateIssue returns
UpdateIssueReturn ==
    /\ tool = "update"
    /\ pc = "Issue.UpdateIssue"
    /\ \E err \in Replies(Outstanding) :
          /\ calls' = Completed(err)
          /\ IF err # <<>>
             THEN ret' = UpdateFailed(params, err) /\ tracker' = tracker
             ELSE /\ ret' = Updated(issue.Key)
                  /\ tracker' = Applied(tracker, Outstanding.arg.data)
    /\ pc' = "returned"
    /\ UNCHANGED <<mainVars, tool, params, ctxCancelled, issue, lookup, lastUpdate>>

\* the transport cancels the context of the running invocation
Cancel ==
    /\ pc \notin {"idle", "returned"}
    /\ ~ctxCancelled
    /\ ctxCancelled' = TRUE
    /\ calls' = [calls EXCEPT ![Len(calls)] = [@ EXCEPT !.ctxDone = TRUE]]
    /\ UNCHANGED <<mainVars, tracker, tool, pc, params, issue, lookup, ret, lastUpdate>>

-----------------------------------------------------------------------------
(* findJiraUser and CreateJiraIssue *)

\* the marker literal "assign to:"
AssignTo == <<"a", "s", "s", "i", "g", "n", " ", "t", "o", ":">>

\* what descriptions are made of: the marker in three letter cases, a
\* name followed by a second line, a line break
DescPieces ==
    {AssignTo,
     <<"A", "s", "s", "i", "g", "n", " ", "T", "o", ":">>,
     <<"A", "S", "S", "I", "G", "N", " ", "T", "O", ":">>,
     <<" ", "B", "o", "B", " ", "\n", "A", "l">>,
     <<"\n">>}

RECURSIVE DescsOfLen(_)
DescsOfLen(n) ==
    IF n = 0 THEN {<<>>}
    ELSE {d \o x : d \in DescsOfLen(n - 1), x \in DescPieces}

Descriptions == UNION {DescsOfLen(n) : n \in 0..MaxPieces}

NilUser == [isNil |-> TRUE, AccountID |-> <<>>]
AccountRef(id) == [isNil |-> FALSE, AccountID |-> id]

CreateJiraIssueParams ==
    [Summary : {<<"Bug">>}, Description : Descriptions, IssueType : {<<"Bug">>},
     Priority : {<<"High">>}, ProjectKey : {<<>>, <<"WEB">>},
     Assignee : {NilUser, AccountRef(<<>>), AccountRef(<<"acc-9">>)}]

\* the users the tracker knows
Bob ==
    [AccountID |-> <<"acc-bob">>, DisplayName |-> <<"B", "o", "b">>,
     EmailAddress |-> <<"b", "@", "x">>, Name |-> <<"r", "b">>]
Al ==
    [AccountID |-> <<"acc-al">>, DisplayName |-> <<"A", "l", " ", "X">>,
     EmailAddress |-> <<"a", "l">>, Name |-> <<"a", "x">>]
Bobby ==
    [AccountID |-> <<"acc-bobby">>, DisplayName |-> <<"B", "o", "b", "b", "y">>,
     EmailAddress |-> <<"b", "b", "@", "x">>, Name |-> <<"B", "O", "B">>]
Self ==
    [AccountID |-> <<"acc-self">>, DisplayName |-> <<"b", "o", "t">>,
     EmailAddress |-> <<"b", "o", "t", "@", "x">>, Name |-> <<"b", "o", "t">>]
Directory == {Bob, Al, Bobby}

\* what User.Find can return
UserLists ==
    UNION {{l \in [1..n -> Directory] : \A i, k \in 1..n : l[i] = l[k] => i = k} :
             n \in 0..MaxUsers}

\* the projectKey local of CreateJiraIssue
projectKeyOf(p) == IF p.ProjectKey = <<>> THEN <<"SMS">> ELSE p.ProjectKey

\* the condition of the "assign to:" branch
HasDirective(p) == Contains(ToLower(p.Description), AssignTo)

\* parts := strings.SplitN(params.Description, "assign to:", 2)
directiveParts(p) == SplitN2(p.Description, AssignTo)

\* assigneeQuery := strings.TrimSpace(strings.Split(parts[1], "\n")[0])
assigneeQueryOf(p) == TrimSpace(Split(directiveParts(p)[2], <<"\n">>)[1])

\* the exact-match test of findJiraUser's loop
Matches(u, query) ==
    \/ EqualFold(u.EmailAddress, query)
    \/ EqualFold(u.DisplayName, query)
    \/ EqualFold(u.Name, query)

\* findJiraUser taking the first candidate without looking for an exact match
findJiraUserFirst(query, users, err) ==
    IF err # <<>>
    THEN [isNil |-> TRUE, user |-> NoUser.user,
          err |-> <<"error searching for user '">> \o query \o <<"': ">> \o err]
    ELSE IF Len(users) = 0
    THEN [isNil |-> TRUE, user |-> NoUser.user,
          err |-> <<"no user found for query '">> \o query \o <<"'">>]
    ELSE [isNil |-> FALSE, user |-> users[1], err |-> <<>>]

\* findJiraUser after User.Find returned users or err: (user, error)
findJiraUser(query, users, err) ==
    IF err # <<>>
    THEN [isNil |-> TRUE, user |-> NoUser.user,
          err |-> <<"error searching for user '">> \o query \o <<"': ">> \o err]
    ELSE IF Len(users) = 0
    THEN [isNil |-> TRUE, user |-> NoUser.user,
          err |-> <<"no user found for query '">> \o query \o <<"'">>]
    ELSE LET hits == {i \in 1..Len(users) : Matches(users[i], query)}
         IN  IF hits # {}
             THEN [isNil |-> FALSE,
                   user |-> users[CHOOSE i \in hits : \A k \in hits : i <= k],
                   err |-> <<>>]
             ELSE [isNil |-> FALSE, user |-> users[1], err |-> <<>>]

\* assigneeFrom falling back to the caller's own account when the lookup fails
assigneeFromOrSelf(found) ==
    IF found.err # <<>> THEN AccountRef(Self.AccountID)
    ELSE IF ~found.isNil THEN AccountRef(found.user.AccountID)
    ELSE NilUser

\* the assignee CreateJiraIssue derives from findJiraUser's result
assigneeFrom(found) ==
    IF found.err # <<>> THEN NilUser
    ELSE IF ~found.isNil THEN AccountRef(found.user.AccountID)
    ELSE NilUser

\* the jira.Issue submitted to Issue.Create
NewIssue(p, assignee) ==
    [Project |-> projectKeyOf(p), Summary |-> p.Summary,
     Description |-> p.Description, Type |-> p.IssueType,
     Priority |-> p.Priority, Assignee |-> assignee]

\* CreateFailed as the disabled line has it:
\* return nil, nil, fmt.Errorf("failed to create JIRA issue: %w", err)
CreateFailedAsError(err) ==
    [returned |-> TRUE, result |-> [isNil |-> TRUE, Content |-> <<>>],
     err |-> <<"failed to create JIRA issue: ">> \o err]

\* the result returned when Issue.Create fails
CreateFailed(err) == TextResult(<<"Failed to create JIRA issue: ">> \o err)

\* the result returned at the end of CreateJiraIssue
Created(key) == TextResult(<<"Created JIRA issue: ">> \o IssueUrl(key))

NewKeys == {<<"SMS-100">>}

\* CreateJiraIssue is invoked and runs up to its first tracker call
CreateStart ==
    /\ Served
    /\ pc = "idle"
    /\ \E p \in CreateJiraIssueParams :
          /\ params' = p
          /\ IF HasDirective(p)
             THEN IF Len(directiveParts(p)) > 1
                  THEN /\ lookup' = [NoLookup EXCEPT !.called = TRUE,
                                                       !.query = assigneeQueryOf(p)]
                       /\ IF assigneeQueryOf(p) = <<>>
                          THEN /\ calls' = <<Outbound("Issue.Create", NewIssue(p, NilUser))>>
                               /\ pc' = "Issue.Create"
                          ELSE /\ calls' = <<Outbound("User.Find", assigneeQueryOf(p))>>
                               /\ pc' = "User.Find"
                  ELSE /\ lookup' = NoLookup
                       /\ calls' = <<Outbound("Issue.Create", NewIssue(p, NilUser))>>
                       /\ pc' = "Issue.Create"
             ELSE IF ~p.Assignee.isNil /\ p.Assignee.AccountID # <<>>
             THEN /\ lookup' = NoLookup
                  /\ calls' = <<Outbound("Issue.Create",
                                         NewIssue(p, AccountRef(p.Assignee.AccountID)))>>
                  /\ pc' = "Issue.Create"
             ELSE /\ lookup' = NoLookup
                  /\ calls' = <<Outbound("User.GetSelf", <<>>)>>
                  /\ pc' = "User.GetSelf"
    /\ tool' = "create"
    /\ ctxCancelled' = FALSE
    /\ issue' = NoIssue
    /\ ret' = NoReturn
    /\ UNCHANGED <<mainVars, tracker, lastUpdate>>

\* User.Find returns inside findJiraUser; Issue.Create goes out
CreateFindReturn ==
    /\ tool = "create"
    /\ pc = "User.Find"
    /\ \E err \in Replies(Outstanding), users \in UserLists :
          /\ err # <<>> => users = <<>>
          /\ lookup' = [lookup EXCEPT !.searched = TRUE, !.users = users,
                                      !.found = findJiraUser(lookup.query, users, err)]
          /\ calls' = Append(Completed(err),
                        Outbound("Issue.Create",
                                 NewIssue(params,
                                          assigneeFrom(findJiraUser(lookup.query, users, err)))))
    /\ pc' = "Issue.Create"
    /\ UNCHANGED <<mainVars, tracker, tool, params, ctxCancelled, issue, ret, lastUpdate>>

\* User.GetSelf returns; Issue.Create goes out
CreateSelfReturn ==
    /\ tool = "create"
    /\ pc = "User.GetSelf"
    /\ \E err \in Replies(Outstanding) :
          calls' = Append(Completed(err),
                     Outbound("Issue.Create",
                              NewIssue(params,
                                       IF err # <<>> THEN NilUser
                                       ELSE AccountRef(Self.AccountID))))
    /\ pc' = "Issue.Create"
    /\ UNCHANGED <<mainVars, tracker, tool, params, ctxCancelled, issue, lookup,
                   ret, lastUpdate>>

\* Issue.Create returns
CreateIssueReturn ==
    /\ tool = "create"
    /\ pc = "Issue.Create"
    /\ \E err \in Replies(Outstanding), key \in NewKeys :
          /\ calls' = Completed(err)
          /\ ret' = IF err # <<>> THEN CreateFailed(err) ELSE Created(key)
    /\ pc' = "returned"
    /\ UNCHANGED <<mainVars, tracker, tool, params, ctxCancelled, issue, lookup,
                   lastUpdate>>

\* what Respond leaves behind: the handler's frame is gone
Forgotten ==
    /\ pc' = "idle"
    /\ tool' = "none"
    /\ params' = NoUpdate.params
    /\ ctxCancelled' = FALSE
    /\ calls' = <<>>
    /\ issue' = NoIssue
    /\ lookup' = NoLookup
    /\ ret' = NoReturn

\* the result goes back to the caller
Respond ==
    /\ pc = "returned"
    /\ Forgotten
    /\ UNCHANGED <<mainVars, tracker, lastUpdate>>

\* Respond, with the invocation that ends kept in lastUpdate
RespondRecorded ==
    /\ pc = "returned"
    /\ Forgotten
    /\ lastUpdate' = [valid |-> TRUE, params |-> params,
                      trace |-> Trace(calls), ret |-> ret]
    /\ UNCHANGED <<mainVars, tracker>>

-----------------------------------------------------------------------------
Init ==
    /\ env \in Envs
    /\ transport \in Transports
    /\ mainPc = "loadConfig"
    /\ config = NoConfig
    /\ fatal = ""
    /\ authLog = <<>>
    /\ tracker = [summary |-> <<"S0">>, description |-> <<"D0">>, status |-> <<"Open">>]
    /\ tool = "none"
    /\ pc = "idle"
    /\ params = NoUpdate.params
    /\ ctxCancelled = FALSE
    /\ calls = <<>>
    /\ issue = NoIssue
    /\ lookup = NoLookup
    /\ ret = NoReturn
    /\ lastUpdate = NoUpdate

Next ==
    \/ LoadConfig
    \/ TestConnection
    \/ StartServer
    \/ ServeExit
    \/ UpdateStart
    \/ UpdateGetReturn
    \/ UpdateIssueReturn
    \/ CreateStart
    \/ CreateFindReturn
    \/ CreateSelfReturn
    \/ CreateIssueReturn
    \/ Cancel
    \/ Respond

Spec == Init /\ [][Next]_vars

\* the server under update requests only, each one remembered for the next
NextUpdates ==
    \/ LoadConfig
    \/ TestConnection
    \/ StartServer
    \/ ServeExit
    \/ UpdateStart
    \/ UpdateGetReturn
    \/ UpdateIssueReturn
    \/ Cancel
    \/ RespondRecorded

SpecUpdates == Init /\ [][NextUpdates]_vars

-----------------------------------------------------------------------------
(* Properties *)

Text == ret.result.Content[1].Text

CallsOf(op) == {i \in 1..Len(calls) : calls[i].op = op}

Min(a, b) == IF a <= b THEN a ELSE b

\* C1: every return of CreateJiraIssue and UpdateJiraIssue is a non-nil
\* result with one text content and a nil error, whatever the tracker calls
\* answered; when Issue.Get, Issue.UpdateIssue or Issue.Create failed, the
\* text carries that call's error.
C1_DomainFailuresStayInEnvelope ==
    pc = "returned" =>
        /\ ret.returned
        /\ ~ret.result.isNil
        /\ Len(ret.result.Content) = 1
        /\ Text # <<>>
        /\ ret.err = <<>>
        /\ \A i \in CallsOf("Issue.Get") \cup CallsOf("Issue.UpdateIssue")
                      \cup CallsOf("Issue.Create") :
              calls[i].err # <<>> =>
                  /\ Contains(Text, calls[i].err)
                  /\ HasPrefix(Text, <<"Failed to create JIRA issue: ">>)
                     \/ HasPrefix(Text, <<"Failed to get JIRA issue ">>)
                     \/ HasPrefix(Text, <<"Failed to update JIRA issue ">>)

\* C1 witness: CreateJiraIssue has returned after Issue.Create failed.
C1_Witness ==
    /\ pc = "returned"
    /\ tool = "create"
    /\ \E i \in CallsOf("Issue.Create") : calls[i].err # <<>>

\* the query the directive of description d names: the text after the first
\* occurrence of the marker in any letter case, up to the line break, trimmed
DirectiveQuery(d) ==
    LET i == Index(ToLower(d), AssignTo)
    IN  TrimSpace(Split(SubSeq(d, i + Len(AssignTo), Len(d)), <<"\n">>)[1])

\* C2: a create request whose description holds the marker "assign to:" in
\* any letter case gives user lookup the query that follows the marker.
C2_QueryFollowsMarkerInAnyCase ==
    (tool = "create" /\ Contains(ToLower(params.Description), AssignTo)) =>
        /\ lookup.called
        /\ lookup.query = DirectiveQuery(params.Description)

\* C3: a tracker call that was outstanding when the invocation context was
\* cancelled, or was issued after that, comes back aborted.
C3_CancellationAbortsCalls ==
    \A i \in 1..Len(calls) :
        (calls[i].ctxDone /\ calls[i].done) => calls[i].err = ContextCanceled

\* C4: the issue submitted by a create request with an empty project key
\* carries the configured ProjectKey; a non-empty request key is kept.
C4_DefaultIsConfiguredProjectKey ==
    tool = "create" =>
        \A i \in CallsOf("Issue.Create") :
            calls[i].arg.Project =
                IF params.ProjectKey = <<>> THEN config.ProjectKey
                                            ELSE params.ProjectKey

\* the fields of summary and description that request p fills in
FilledIn(p) ==
    (IF p.Summary # <<>> THEN {"summary"} ELSE {}) \cup
    (IF p.Description # <<>> THEN {"description"} ELSE {})

\* C5: after a successful fetch an update request makes at most one
\* Issue.UpdateIssue call, makes it exactly when summary or description is
\* non-empty, and submits a set directive with the new value for exactly the
\* non-empty ones.
C5_PartialUpdate ==
    (tool = "update" /\ calls[1].done /\ calls[1].err = <<>>) =>
        /\ Cardinality(CallsOf("Issue.UpdateIssue")) <= 1
        /\ CallsOf("Issue.UpdateIssue") # {} <=> FilledIn(params) # {}
        /\ \A i \in CallsOf("Issue.UpdateIssue") :
              LET update == calls[i].arg.data.update
              IN  /\ calls[i].arg.key = params.IssueKey
                  /\ DOMAIN calls[i].arg.data = {"update"}
                  /\ DOMAIN update = FilledIn(params)
                  /\ "summary" \in DOMAIN update =>
                        update["summary"] = <<[set |-> params.Summary]>>
                  /\ "description" \in DOMAIN update =>
                        update["description"] = <<[set |-> params.Description]>>

\* C5 witness: an update with a summary only has returned after its one
\* update call.
C5_Witness ==
    /\ tool = "update"
    /\ pc = "returned"
    /\ params.Summary # <<>>
    /\ params.Description = <<>>
    /\ CallsOf("Issue.UpdateIssue") # {}
    /\ \A i \in 1..Len(calls) : calls[i].err = <<>>

\* C6: when Issue.Get fails, the update returns a text holding the requested
\* key and the error, and Issue.Get stays the only call of the invocation.
C6_FailedFetchStops ==
    (tool = "update" /\ calls[1].done /\ calls[1].err # <<>>) =>
        /\ pc = "returned"
        /\ Len(calls) = 1
        /\ Contains(Text, params.IssueKey)
        /\ Contains(Text, calls[1].err)

\* C6 witness: the fetch of a request with summary, description and status
\* has failed.
C6_Witness ==
    /\ tool = "update"
    /\ calls[1].done
    /\ calls[1].err # <<>>
    /\ params.Summary # <<>>
    /\ params.Description # <<>>
    /\ params.Status # <<>>

\* requests p and q differ in their status and in nothing else
DifferInStatusOnly(p, q) ==
    /\ p.Status # q.Status
    /\ [p EXCEPT !.Status = <<>>] = [q EXCEPT !.Status = <<>>]

\* the tracker answered the calls of this invocation as it answered the
\* calls of the previous one
SameAnswers ==
    \A i \in 1..Min(Len(calls), Len(lastUpdate.trace)) :
        calls[i].err = lastUpdate.trace[i].err

\* C7: the status of an update request is never applied: the tracker's
\* status stays as it was, the only calls are the fetch and the field update,
\* which carries no status, two requests that differ in status only make the
\* same calls and return the same result, and a request with a key and a
\* status only returns the success text with the issue's URL after the fetch
\* alone.
C7_StatusNeverApplied ==
    /\ tracker.status = <<"Open">>
    /\ \A i \in 1..Len(calls) :
          /\ calls[i].op \in {"Issue.Get", "Issue.UpdateIssue"}
          /\ calls[i].op = "Issue.UpdateIssue" =>
                "status" \notin DOMAIN calls[i].arg.data.update
    /\ (pc = "returned" /\ lastUpdate.valid
          /\ DifferInStatusOnly(params, lastUpdate.params) /\ SameAnswers) =>
            /\ Trace(calls) = lastUpdate.trace
            /\ ret = lastUpdate.ret
    /\ (pc = "returned" /\ params.Summary = <<>> /\ params.Description = <<>>
          /\ params.Status # <<>> /\ calls[1].err = <<>>) =>
            /\ Len(calls) = 1
            /\ Text = <<"Updated JIRA issue: ">> \o config.BaseURL
                         \o <<"/browse/">> \o params.IssueKey

\* C7 witness: an update asking for a status has succeeded right after the
\* same update without the status.
C7_Witness ==
    /\ pc = "returned"
    /\ lastUpdate.valid
    /\ DifferInStatusOnly(params, lastUpdate.params)
    /\ params.Status = <<"Done">>
    /\ params.Summary # <<>>
    /\ SameAnswers
    /\ \A i \in 1..Len(calls) : calls[i].err = <<>>

\* the user search of this create came back without a user
LookupFailed ==
    /\ tool = "create"
    /\ lookup.searched
    /\ lookup.query # <<>>
    /\ \E i \in CallsOf("User.Find") : calls[i].err # <<>> \/ lookup.users = <<>>

\* C8: when the search for the directive's user fails or finds nobody, the
\* create still submits the issue with one Issue.Create call and no assignee,
\* and the result is the one the outcome of Issue.Create gives.
C8_LookupFailureIsNotFatal ==
    LookupFailed =>
        /\ Cardinality(CallsOf("Issue.Create")) = 1
        /\ \A i \in CallsOf("Issue.Create") :
              /\ calls[i].arg.Assignee.isNil
              /\ pc = "returned" =>
                    /\ ret.err = <<>>
                    /\ ~Contains(Text, lookup.found.err)
                    /\ ~Contains(Text, lookup.query)
                    /\ Text = IF calls[i].err # <<>>
                              THEN <<"Failed to create JIRA issue: ">> \o calls[i].err
                              ELSE <<"Created JIRA issue: ">> \o config.BaseURL
                                      \o <<"/browse/">> \o <<"SMS-100">>

\* C8 witness: a create with an explicit assignee has returned after the
\* search found nobody.
C8_Witness ==
    /\ LookupFailed
    /\ pc = "returned"
    /\ lookup.users = <<>>
    /\ \A i \in CallsOf("User.Find") : calls[i].err = <<>>
    /\ ~params.Assignee.isNil
    /\ params.Assignee.AccountID # <<>>

\* candidate u matches query q exactly, letter case aside
ExactMatch(u, q) ==
    \E f \in {"EmailAddress", "DisplayName", "Name"} : ToLower(u[f]) = ToLower(q)

StartupDiagnostics ==
    {"Failed to load configuration:",
     "JIRA_USERNAME and JIRA_API_TOKEN environment variables are required",
     "Failed to create JIRA client: ",
     "Failed to authenticate with JIRA: ",
     "Failed to create JIRA MCP server:"}

\* C10: a handler runs only in a process that is serving, and a process
\* serves only after loadConfig succeeded and its one authentication call
\* succeeded; a process that failed to start has exited with a diagnostic,
\* served nothing and authenticated at most once.
C10_FailFastStartup ==
    /\ Len(authLog) <= 1
    /\ (pc # "idle" \/ tool # "none") => mainPc = "serving"
    /\ mainPc = "serving" =>
          /\ loadConfigErr(env) = ""
          /\ config.Username # <<>> /\ config.APIToken # <<>>
          /\ authLog = <<TRUE>>
          /\ fatal = ""
    /\ (loadConfigErr(env) # "" \/ authLog = <<FALSE>>) =>
          /\ mainPc \in {"loadConfig", "exited"}
          /\ pc = "idle" /\ tool = "none" /\ calls = <<>>
          /\ mainPc = "exited" => fatal \in StartupDiagnostics

\* C10 witness: a request is being handled over the HTTP transport.
C10_Witness ==
    /\ mainPc = "serving"
    /\ transport = "sse"
    /\ pc = "Issue.Get"

=============================================================================
